---- MODULE Spec2Model ----
(***************************************************************************)
(* Model of the admin view AdminAdvertisementSubmissionsManagement          *)
(* (src/unnamed/part_000): its React state, its handlers, the requests it   *)
(* has in flight, and the submission store behind the REST endpoints.       *)
(*                                                                          *)
(* One action is one handler run up to its next await, or one continuation  *)
(* after an await.  A request in flight is first "sent", then "answered"    *)
(* by the store, then delivered to the continuation that awaits it.         *)
(***************************************************************************)
EXTENDS Integers, Sequences, FiniteSets, TLC

VARIABLES
    submissions, statistics, loading, deleting, updating,
    search, filterStatus, filterBannerType, currentPage, totalPages, total,
    mounted,      \* the mount effect has run
    store,        \* the store's submissions, in the order it lists them
    net,          \* requests in flight, in the order they were issued
    toasts,       \* notifications raised by the last handler run
    issued,       \* requests sent by the last handler run
    lastOp,       \* name of the last handler run
    nQuery, nMut, \* query changes and mutations started so far
    nFail,        \* requests that failed so far
    showDetailsDialog, selectedSubmission,
    nView,        \* details views opened so far
    summary,      \* the range shown by the pagination summary
    now,          \* Date.now(), in hours
    userAgent,    \* navigator.userAgent of the page loaded
    localStorage, sessionStorage,
    reminder,     \* state of MobileInstallationReminder
    banner,       \* state of PWAInstallButton
    appInfo,      \* fetches of /api/app/info awaited by the banner
    dismissedAt,  \* when handleDismiss of the reminder last ran
    sessionDismissed, \* dismiss() of the banner ran in this session
    leadForm,     \* state of AdvertisementBanners
    leadNet,      \* the createSubmission request handleSubmit awaits
    leadToasts,   \* notifications raised by the last handler run of the form
    leadOp        \* name of the last handler run of the form

vars == << submissions, statistics, loading, deleting, updating,
           search, filterStatus, filterBannerType, currentPage, totalPages,
           total, mounted, store, net, toasts, issued, lastOp,
           nQuery, nMut, nFail,
           showDetailsDialog, selectedSubmission, nView, summary,
           now, userAgent, localStorage, sessionStorage, reminder, banner,
           appInfo, dismissedAt, sessionDismissed,
           leadForm, leadNet, leadToasts, leadOp >>

ui == << submissions, statistics, loading, deleting, updating,
         search, filterStatus, filterBannerType, currentPage, totalPages,
         total >>

(* the details dialog *)
details == << showDetailsDialog, selectedSubmission, nView >>

(* the admin view with what it keeps in flight and the store behind it *)
admin == << ui, mounted, store, net, toasts, issued, lastOp,
            nQuery, nMut, nFail, details >>

(* the install banner, the install reminder and the browser they run in *)
install == << now, userAgent, localStorage, sessionStorage, reminder, banner,
              appInfo, dismissedAt, sessionDismissed >>

(* the lead-capture form with the request it has in flight *)
lead == << leadForm, leadNet, leadToasts, leadOp >>

(* what the handlers of the admin view leave alone *)
outside == << summary, install, lead >>

----------------------------------------------------------------------------
(* Bounds of the model *)

NumSubmissions == 11
MaxOps == 2
MaxInFlight == 3
MaxFailures == 1

(* limit: "10" of the list query, and the 10 of the pagination summary *)
PageLimit == 10

Statuses == {"new", "viewed", "contacted"}
StatusOptions == {"", "new", "viewed", "contacted"}
BannerTypeOptions == {"", "residential", "commercial", "investment", "industrial"}
(* what the user types and picks *)
SearchTexts == {"", "asha"}
BannerTypeChoices == {"", "commercial"}
ServerErrors == {"", "Unauthorized"}

Min(a, b) == IF a < b THEN a ELSE b
Max(a, b) == IF a > b THEN a ELSE b

Null == << >>
Some(x) == << x >>

----------------------------------------------------------------------------
(* The store (the REST endpoints' side) *)

BannerOf(i) ==
    CASE i % 4 = 1 -> "residential"
      [] i % 4 = 2 -> "commercial"
      [] i % 4 = 3 -> "investment"
      [] OTHER     -> "industrial"

InitialSubmission(i) ==
    [ id         |-> i,
      status     |-> IF i <= 6 THEN "new" ELSE IF i <= 9 THEN "viewed" ELSE "contacted",
      bannerType |-> BannerOf(i),
      fullName   |-> IF i % 2 = 1 THEN "asha" ELSE "ravi" ]

InitialStore == [ i \in 1..NumSubmissions |-> InitialSubmission(i) ]

(* URLSearchParams: a sequence of <<key, value>> pairs of strings *)
HasParam(params, key) == \E k \in DOMAIN params : params[k][1] = key
GetParam(params, key) ==
    IF HasParam(params, key)
    THEN params[CHOOSE k \in DOMAIN params : params[k][1] = key][2]
    ELSE ""

(* parseInt of a decimal string written by Number.prototype.toString *)
ParseInt(s) == CHOOSE n \in 0..(NumSubmissions + PageLimit) : ToString(n) = s

Matches(s, params) ==
    /\ (HasParam(params, "search")     => s.fullName   = GetParam(params, "search"))
    /\ (HasParam(params, "status")     => s.status     = GetParam(params, "status"))
    /\ (HasParam(params, "bannerType") => s.bannerType = GetParam(params, "bannerType"))

Pages(n, limit) == (n + limit - 1) \div limit

ListResult(st, params) ==
    LET Test(s)  == Matches(s, params)
        found    == SelectSeq(st, Test)
        page     == ParseInt(GetParam(params, "page"))
        limit    == ParseInt(GetParam(params, "limit"))
    IN  [ submissions |-> SubSeq(found, (page - 1) * limit + 1,
                                 Min(page * limit, Len(found))),
          total       |-> Len(found),
          pages       |-> Pages(Len(found), limit) ]

CountStatus(st, status) ==
    Cardinality({ i \in DOMAIN st : st[i].status = status })

StatisticsOf(st) ==
    [ total     |-> Len(st),
      new       |-> CountStatus(st, "new"),
      viewed    |-> CountStatus(st, "viewed"),
      contacted |-> CountStatus(st, "contacted"),
      byBannerType |->
          [ b \in BannerTypeOptions \ {""} |->
              Cardinality({ i \in DOMAIN st : st[i].bannerType = b }) ] ]

InStore(st, id) == \E i \in DOMAIN st : st[i].id = id

UpdateStatus(st, id, status) ==
    [ i \in DOMAIN st |-> IF st[i].id = id THEN [ st[i] EXCEPT !.status = status ]
                                           ELSE st[i] ]

DeleteSubmission(st, id) ==
    LET Keep(s) == s.id # id IN SelectSeq(st, Keep)

----------------------------------------------------------------------------
(* The browser, and the state of the two install components                *)
(* (src/client/components/PWAInstallButton.tsx and                         *)
(* src/client/components/MobileInstallationReminder.tsx)                   *)

ClockStep == 12
MaxClock == 192
MaxInfoFetches == 1

REMINDER_STORAGE_KEY == "mobile-install-reminder-dismissed"
INSTALL_ATTEMPT_KEY == "apk-download-attempted"
SESSION_KEY == "ashish_download_dismissed_session"
PWA_INSTALLED_KEY == "pwa-installed"

(* "Show again after 24 hours", "attempted less than 7 days ago" *)
DismissHours == 24
AttemptHours == 168

(* the user agents told apart by the two regular expressions *)
UserAgents == {"android", "iphone", "desktop"}

(* /android/i.test(navigator.userAgent) *)
IsAndroid(ua) == ua = "android"

(* /android|webos|iphone|ipad|ipod|blackberry|iemobile|opera mini/i *)
IsMobile(ua) == ua \in {"android", "iphone"}

(* new Date().toISOString(), and new Date(string).getTime() in hours *)
ToISOString(t) == ToString(t)
DateOf(string) == CHOOSE t \in 0..(MaxClock + ClockStep) : ToISOString(t) = string

(* (Date.now() - new Date(item.timestamp).getTime()) / (1000 * 60 * 60) *)
HoursSince(item) == now - DateOf(item.timestamp)

(* an item is stored under the key and it is younger than the threshold *)
StoredWithin(key, hours) ==
    /\ localStorage[key] # Null
    /\ HoursSince(localStorage[key][1]) < hours

(* the reminder is rendered (line 73), the banner is rendered (line 158) *)
ReminderShown == reminder.visible /\ ~reminder.dismissed
BannerShown == banner.visible

ReminderInit == [ mounted |-> FALSE, visible |-> FALSE, dismissed |-> FALSE ]
(* prompting: installPWA is at one of its awaits *)
BannerInit == [ mounted |-> FALSE, visible |-> FALSE,
                showInstallHelp |-> FALSE, bipEvt |-> Null,
                installing |-> FALSE, prompting |-> FALSE ]

(* a browser that never loaded the site, on a desktop *)
InstallInit ==
    /\ now = 0
    /\ userAgent = "desktop"
    /\ localStorage = [ key \in {REMINDER_STORAGE_KEY, INSTALL_ATTEMPT_KEY,
                                 PWA_INSTALLED_KEY} |-> Null ]
    /\ sessionStorage = [ key \in {SESSION_KEY} |-> Null ]
    /\ reminder = ReminderInit
    /\ banner = BannerInit
    /\ appInfo = 0
    /\ dismissedAt = Null
    /\ sessionDismissed = FALSE

(* BANNERS, lines 163-196: the type of each card *)
BANNERS == { "residential", "commercial", "investment", "industrial" }

(* the inputs of the form that call handleInputChange (lines 364-478) *)
InputFields == { "fullName", "email", "phone", "projectName", "location",
                 "budget", "description" }

(* what a visitor types into an input *)
SampleText == [ fullName |-> "Asha Rao", email |-> "asha@example.com",
                phone |-> "9876543210", projectName |-> "Green Acres",
                location |-> "Rohtak", budget |-> "50 lakh",
                description |-> "2 BHK flats" ]

(* the form data set by useState (type "") and by handleBannerClick *)
EmptyForm(type) ==
    [ bannerType |-> type, fullName |-> "", email |-> "", phone |-> "",
      projectName |-> "", location |-> "", projectType |-> type,
      budget |-> "", description |-> "" ]

LeadInit ==
    /\ leadForm = [ selectedBanner |-> Null, showForm |-> FALSE,
                    loading |-> FALSE, formData |-> EmptyForm("") ]
    /\ leadNet = Null
    /\ leadToasts = << >>
    /\ leadOp = "init"

----------------------------------------------------------------------------
(* The component: state read by the handlers of one render *)

Query ==
    [ search           |-> search,
      filterStatus     |-> filterStatus,
      filterBannerType |-> filterBannerType,
      currentPage      |-> currentPage ]

(* mutant: the status parameter is appended without its if *)
BuildParamsStatusAlways(q) ==
    << << "page", ToString(q.currentPage) >>, << "limit", ToString(PageLimit) >> >>
    \o (IF q.search # "" THEN << << "search", q.search >> >> ELSE << >>)
    \o << << "status", q.filterStatus >> >>
    \o (IF q.filterBannerType # ""
        THEN << << "bannerType", q.filterBannerType >> >> ELSE << >>)

(* fetchSubmissions, lines 122-129: the URLSearchParams of the list query *)
BuildParams(q) ==
    << << "page", ToString(q.currentPage) >>, << "limit", ToString(PageLimit) >> >>
    \o (IF q.search # "" THEN << << "search", q.search >> >> ELSE << >>)
    \o (IF q.filterStatus # "" THEN << << "status", q.filterStatus >> >> ELSE << >>)
    \o (IF q.filterBannerType # ""
        THEN << << "bannerType", q.filterBannerType >> >> ELSE << >>)

(* fetchSubmissions and fetchStatistics read nothing of their closure after *)
(* the await: only the state setters                                       *)
NoClosure == << >>

(* A request in flight.  q is the state captured by the closure that awaits *)
(* the response (the render in which the handler was created).              *)
Request(kind, params, id, status, q) ==
    [ kind |-> kind, params |-> params, id |-> id, status |-> status,
      q |-> q, stage |-> "sent", resp |-> Null ]

ListRequest(q) == Request("list", BuildParams(q), 0, "", NoClosure)
StatsRequest(q) == Request("stats", << >>, 0, "", NoClosure)
StatusRequest(id, status, q) == Request("status", << >>, id, status, q)
DeleteRequest(id, q) == Request("delete", << >>, id, "", q)

(* fetchSubmissions(); fetchStatistics(); as called by a closure over q *)
Refresh(q) == << ListRequest(q), StatsRequest(q) >>

Remove(s, i) == SubSeq(s, 1, i - 1) \o SubSeq(s, i + 1, Len(s))

Toast(title, description, variant) ==
    [ title |-> title, description |-> description, variant |-> variant ]

(* data.error || fallback *)
OrElse(error, fallback) == IF error # "" THEN error ELSE fallback

(* the table, and with it every row control, is rendered (lines 396-404) *)
TableShown == mounted /\ ~loading /\ Len(submissions) > 0

(* the pagination bar is rendered (line 493) *)
PaginationShown == TableShown /\ totalPages > 1

Init ==
    /\ submissions = << >>
    /\ statistics = Null
    /\ loading = TRUE
    /\ deleting = FALSE
    /\ updating = FALSE
    /\ search = ""
    /\ filterStatus = ""
    /\ filterBannerType = ""
    /\ currentPage = 1
    /\ totalPages = 1
    /\ total = 0
    /\ mounted = FALSE
    /\ store = InitialStore
    /\ net = << >>
    /\ toasts = << >>
    /\ issued = << >>
    /\ lastOp = << "init", "" >>
    /\ nQuery = 0
    /\ nMut = 0
    /\ nFail = 0
    /\ showDetailsDialog = FALSE
    /\ selectedSubmission = Null
    /\ nView = 0
    /\ summary = Null
    /\ InstallInit
    /\ LeadInit

(* useEffect, lines 113-117, run with the state of the render it belongs to *)
RunEffect(q) ==
    /\ loading' = TRUE
    /\ net' = net \o Refresh(q)
    /\ issued' = Refresh(q)

(* first render: the effect runs once *)
Mount ==
    /\ ~mounted
    /\ mounted' = TRUE
    /\ RunEffect(Query)
    /\ toasts' = << >>
    /\ lastOp' = << "Mount", "" >>
    /\ UNCHANGED << submissions, statistics, deleting, updating, search,
                    filterStatus, filterBannerType, currentPage, totalPages,
                    total, store, nQuery, nMut, nFail, details, outside >>

(* a handler set the query state to newQ; the re-render runs the effect *)
(* when one of its dependencies changed                                  *)
ApplyQuery(newQ, op) ==
    /\ mounted
    /\ nQuery + nMut + nView < MaxOps
    /\ Len(net) + 2 <= MaxInFlight
    /\ newQ # Query
    /\ search' = newQ.search
    /\ filterStatus' = newQ.filterStatus
    /\ filterBannerType' = newQ.filterBannerType
    /\ currentPage' = newQ.currentPage
    /\ RunEffect(newQ)
    /\ nQuery' = nQuery + 1
    /\ toasts' = << >>
    /\ lastOp' = << op, "" >>
    /\ UNCHANGED << submissions, statistics, deleting, updating, totalPages,
                    total, mounted, store, nMut, nFail, details, outside >>

(* search input onChange, lines 349-352 *)
SearchChanged(text) == [ Query EXCEPT !.search = text, !.currentPage = 1 ]

OnSearchChange ==
    \E text \in SearchTexts \ {search} :
        ApplyQuery(SearchChanged(text), "OnSearchChange")

(* status filter, line 358: onValueChange={setFilterStatus} *)
StatusFilterChanged(v) == [ Query EXCEPT !.filterStatus = v ]

OnStatusFilterChange ==
    \E v \in StatusOptions \ {filterStatus} :
        ApplyQuery(StatusFilterChanged(v), "OnStatusFilterChange")

(* bannerType filter, line 371: onValueChange={setFilterBannerType} *)
BannerTypeFilterChanged(v) == [ Query EXCEPT !.filterBannerType = v ]

OnBannerTypeFilterChange ==
    \E v \in BannerTypeChoices \ {filterBannerType} :
        ApplyQuery(BannerTypeFilterChanged(v), "OnBannerTypeFilterChange")

(* previous-page button, lines 500-509 *)
PrevTarget == Max(1, currentPage - 1)

OnPrevPage ==
    /\ PaginationShown
    /\ currentPage # 1
    /\ ApplyQuery([ Query EXCEPT !.currentPage = PrevTarget ], "OnPrevPage")

(* next-page button, lines 510-519 *)
NextTarget == Min(totalPages, currentPage + 1)

OnNextPage ==
    /\ PaginationShown
    /\ currentPage # totalPages
    /\ ApplyQuery([ Query EXCEPT !.currentPage = NextTarget ], "OnNextPage")

(* mutant: the row Select is not disabled while updating *)
HandleStatusChangeNoLock(i, newStatus) ==
    /\ TableShown
    /\ nQuery + nMut + nView < MaxOps
    /\ Len(net) + 1 <= MaxInFlight
    /\ updating' = TRUE
    /\ net' = net \o << StatusRequest(submissions[i].id, newStatus, Query) >>
    /\ issued' = << StatusRequest(submissions[i].id, newStatus, Query) >>
    /\ nMut' = nMut + 1
    /\ toasts' = << >>
    /\ lastOp' = << "HandleStatusChange", "" >>
    /\ UNCHANGED << submissions, statistics, loading, deleting, search,
                    filterStatus, filterBannerType, currentPage, totalPages,
                    total, mounted, store, nQuery, nFail, details, outside >>

(* mutant: the new status is written into the row before the store confirms *)
HandleStatusChangeOptimistic(i, newStatus) ==
    /\ TableShown
    /\ ~updating
    /\ nQuery + nMut + nView < MaxOps
    /\ Len(net) + 1 <= MaxInFlight
    /\ updating' = TRUE
    /\ submissions' = [ submissions EXCEPT ![i].status = newStatus ]
    /\ net' = net \o << StatusRequest(submissions[i].id, newStatus, Query) >>
    /\ issued' = << StatusRequest(submissions[i].id, newStatus, Query) >>
    /\ nMut' = nMut + 1
    /\ toasts' = << >>
    /\ lastOp' = << "HandleStatusChange", "" >>
    /\ UNCHANGED << statistics, loading, deleting, search,
                    filterStatus, filterBannerType, currentPage, totalPages,
                    total, mounted, store, nQuery, nFail, details, outside >>

(* mutant: the request carries the status the row has, not the one picked *)
HandleStatusChangeSendsOldStatus(i, newStatus) ==
    /\ TableShown
    /\ ~updating
    /\ nQuery + nMut + nView < MaxOps
    /\ Len(net) + 1 <= MaxInFlight
    /\ updating' = TRUE
    /\ net' = net \o << StatusRequest(submissions[i].id, submissions[i].status,
                                      Query) >>
    /\ issued' = << StatusRequest(submissions[i].id, submissions[i].status,
                                  Query) >>
    /\ nMut' = nMut + 1
    /\ toasts' = << >>
    /\ lastOp' = << "HandleStatusChange", "" >>
    /\ UNCHANGED << submissions, statistics, loading, deleting, search,
                    filterStatus, filterBannerType, currentPage, totalPages,
                    total, mounted, store, nQuery, nFail, details, outside >>

(* handleStatusChange up to its await, lines 184-200; the row Select is *)
(* disabled while updating (line 450)                                    *)
HandleStatusChange(i, newStatus) ==
    /\ TableShown
    /\ ~updating
    /\ nQuery + nMut + nView < MaxOps
    /\ Len(net) + 1 <= MaxInFlight
    /\ updating' = TRUE
    /\ net' = net \o << StatusRequest(submissions[i].id, newStatus, Query) >>
    /\ issued' = << StatusRequest(submissions[i].id, newStatus, Query) >>
    /\ nMut' = nMut + 1
    /\ toasts' = << >>
    /\ lastOp' = << "HandleStatusChange", "" >>
    /\ UNCHANGED << submissions, statistics, loading, deleting, search,
                    filterStatus, filterBannerType, currentPage, totalPages,
                    total, mounted, store, nQuery, nFail, details, outside >>

(* the rows the user acts on: the first and the last row of the page *)
RowChoices == { i \in DOMAIN submissions : i = 1 \/ i = Len(submissions) }

OnRowStatusChange ==
    \E i \in RowChoices :
        \E newStatus \in Statuses \ {submissions[i].status} :
            HandleStatusChange(i, newStatus)

(* mutant: the deleting flag is raised before the confirmation is asked *)
HandleDeleteFlagBeforeConfirm(i, confirmed) ==
    /\ TableShown
    /\ ~deleting
    /\ deleting' = TRUE
    /\ IF confirmed
       THEN /\ nQuery + nMut + nView < MaxOps
            /\ Len(net) + 1 <= MaxInFlight
            /\ net' = net \o << DeleteRequest(submissions[i].id, Query) >>
            /\ issued' = << DeleteRequest(submissions[i].id, Query) >>
            /\ nMut' = nMut + 1
            /\ lastOp' = << "HandleDelete", "" >>
       ELSE /\ issued' = << >>
            /\ lastOp' = << "HandleDeleteDeclined", "" >>
            /\ UNCHANGED << net, nMut >>
    /\ toasts' = << >>
    /\ UNCHANGED << submissions, statistics, loading, updating, search,
                    filterStatus, filterBannerType, currentPage, totalPages,
                    total, mounted, store, nQuery, nFail, details, outside >>

(* mutant: the delete button is disabled while a status change is running *)
HandleDeleteBlockedByUpdating(i, confirmed) ==
    /\ TableShown
    /\ ~deleting
    /\ ~updating
    /\ IF confirmed
       THEN /\ nQuery + nMut + nView < MaxOps
            /\ Len(net) + 1 <= MaxInFlight
            /\ deleting' = TRUE
            /\ net' = net \o << DeleteRequest(submissions[i].id, Query) >>
            /\ issued' = << DeleteRequest(submissions[i].id, Query) >>
            /\ nMut' = nMut + 1
            /\ lastOp' = << "HandleDelete", "" >>
       ELSE /\ issued' = << >>
            /\ lastOp' = << "HandleDeleteDeclined", "" >>
            /\ UNCHANGED << deleting, net, nMut >>
    /\ toasts' = << >>
    /\ UNCHANGED << submissions, statistics, loading, updating, search,
                    filterStatus, filterBannerType, currentPage, totalPages,
                    total, mounted, store, nQuery, nFail, details, outside >>

(* handleDelete up to its await, lines 230-243; the delete button is *)
(* disabled while deleting (line 480)                                 *)
HandleDelete(i, confirmed) ==
    /\ TableShown
    /\ ~deleting
    /\ IF confirmed
       THEN /\ nQuery + nMut + nView < MaxOps
            /\ Len(net) + 1 <= MaxInFlight
            /\ deleting' = TRUE
            /\ net' = net \o << DeleteRequest(submissions[i].id, Query) >>
            /\ issued' = << DeleteRequest(submissions[i].id, Query) >>
            /\ nMut' = nMut + 1
            /\ lastOp' = << "HandleDelete", "" >>
       ELSE /\ issued' = << >>
            /\ lastOp' = << "HandleDeleteDeclined", "" >>
            /\ UNCHANGED << deleting, net, nMut >>
    /\ toasts' = << >>
    /\ UNCHANGED << submissions, statistics, loading, updating, search,
                    filterStatus, filterBannerType, currentPage, totalPages,
                    total, mounted, store, nQuery, nFail, details, outside >>

OnRowDelete ==
    \E i \in RowChoices : \E confirmed \in BOOLEAN :
        HandleDelete(i, confirmed)

(* mutant: opening the details fetches the list again *)
HandleViewDetailsRefetches(i) ==
    /\ TableShown
    /\ nQuery + nMut + nView < MaxOps
    /\ selectedSubmission' = Some(submissions[i])
    /\ showDetailsDialog' = TRUE
    /\ nView' = nView + 1
    /\ loading' = TRUE
    /\ net' = net \o << ListRequest(Query) >>
    /\ issued' = << ListRequest(Query) >>
    /\ toasts' = << >>
    /\ lastOp' = << "HandleViewDetails", "" >>
    /\ UNCHANGED << submissions, statistics, deleting, updating, search,
                    filterStatus, filterBannerType, currentPage, totalPages,
                    total, mounted, store, nQuery, nMut, nFail, outside >>

(* handleViewDetails, lines 179-182, called by the view button of a row *)
(* (line 472)                                                           *)
HandleViewDetails(i) ==
    /\ TableShown
    /\ nQuery + nMut + nView < MaxOps
    /\ selectedSubmission' = Some(submissions[i])
    /\ showDetailsDialog' = TRUE
    /\ nView' = nView + 1
    /\ issued' = << >>
    /\ toasts' = << >>
    /\ lastOp' = << "HandleViewDetails", "" >>
    /\ UNCHANGED << ui, mounted, store, net, nQuery, nMut, nFail, outside >>

OnRowView == \E i \in RowChoices : HandleViewDetails(i)

(* the dialog is closed: onOpenChange (line 529) or its Close button *)
(* (lines 659-664)                                                   *)
CloseDetails ==
    /\ showDetailsDialog
    /\ showDetailsDialog' = FALSE
    /\ issued' = << >>
    /\ toasts' = << >>
    /\ lastOp' = << "CloseDetails", "" >>
    /\ UNCHANGED << ui, mounted, store, net, nQuery, nMut, nFail,
                    selectedSubmission, nView, outside >>

----------------------------------------------------------------------------
(* The store answers a request *)

Success(data) == [ success |-> TRUE, error |-> "", data |-> data ]
Failure(error) == [ success |-> FALSE, error |-> error, data |-> Null ]

Answer(r, st) ==
    CASE r.kind = "list"  -> Success(ListResult(st, r.params))
      [] r.kind = "stats" -> Success(StatisticsOf(st))
      [] OTHER            -> Success(Null)

StoreAfter(r, st) ==
    CASE r.kind = "status" -> UpdateStatus(st, r.id, r.status)
      [] r.kind = "delete" -> DeleteSubmission(st, r.id)
      [] OTHER             -> st

(* request i mutates a submission the store does not hold (any more): the *)
(* store can only refuse it, and that refusal is not counted in nFail     *)
Unservable(i) ==
    net[i].kind \in {"status", "delete"} /\ ~InStore(store, net[i].id)

(* the store serves request i: a read sees the store as it is now, a *)
(* mutation is applied now                                            *)
StoreAnswers(i) ==
    /\ net[i].stage = "sent"
    /\ net[i].kind \in {"status", "delete"} => InStore(store, net[i].id)
    /\ store' = StoreAfter(net[i], store)
    /\ net' = [ net EXCEPT ![i].stage = "answered",
                           ![i].resp = Some(Answer(net[i], store)) ]
    /\ UNCHANGED << ui, mounted, toasts, issued, lastOp, nQuery, nMut, nFail,
                    details, outside >>

----------------------------------------------------------------------------
(* The continuations after the awaits.  data is the parsed response body; *)
(* threw says that fetch rejected or the body could not be read.          *)

(* mutant: an answer is dropped unless it answers the current QueryState *)
ListSettledIfCurrent(r, data, threw) ==
    /\ IF ~threw /\ data.success
       THEN /\ IF r.params = BuildParams(Query)
               THEN /\ submissions' = data.data.submissions
                    /\ total' = data.data.total
                    /\ totalPages' = data.data.pages
               ELSE UNCHANGED << submissions, total, totalPages >>
            /\ toasts' = << >>
       ELSE /\ toasts' = << Toast("Error",
                                  IF threw THEN "Failed to fetch submissions"
                                  ELSE OrElse(data.error,
                                              "Failed to fetch submissions"),
                                  "destructive") >>
            /\ UNCHANGED << submissions, total, totalPages >>
    /\ loading' = FALSE
    /\ issued' = << >>
    /\ UNCHANGED << statistics, deleting, updating >>

(* mutant: totalPages is not taken from the answer *)
ListSettledKeepsPages(r, data, threw) ==
    /\ IF ~threw /\ data.success
       THEN /\ submissions' = data.data.submissions
            /\ total' = data.data.total
            /\ toasts' = << >>
            /\ UNCHANGED totalPages
       ELSE /\ toasts' = << Toast("Error",
                                  IF threw THEN "Failed to fetch submissions"
                                  ELSE OrElse(data.error,
                                              "Failed to fetch submissions"),
                                  "destructive") >>
            /\ UNCHANGED << submissions, total, totalPages >>
    /\ loading' = FALSE
    /\ issued' = << >>
    /\ UNCHANGED << statistics, deleting, updating >>

(* fetchSubmissions, lines 138-160 *)
ListSettled(r, data, threw) ==
    /\ IF ~threw /\ data.success
       THEN /\ submissions' = data.data.submissions
            /\ total' = data.data.total
            /\ totalPages' = data.data.pages
            /\ toasts' = << >>
       ELSE /\ toasts' = << Toast("Error",
                                  IF threw THEN "Failed to fetch submissions"
                                  ELSE OrElse(data.error,
                                              "Failed to fetch submissions"),
                                  "destructive") >>
            /\ UNCHANGED << submissions, total, totalPages >>
    /\ loading' = FALSE
    /\ issued' = << >>
    /\ UNCHANGED << statistics, deleting, updating >>

(* mutant: a failed statistics fetch raises a notification *)
StatsSettledNotifies(r, data, threw) ==
    /\ IF ~threw /\ data.success
       THEN statistics' = Some(data.data) /\ toasts' = << >>
       ELSE /\ toasts' = << Toast("Error", "Failed to fetch statistics",
                                  "destructive") >>
            /\ UNCHANGED statistics
    /\ issued' = << >>
    /\ UNCHANGED << submissions, total, totalPages, loading, deleting, updating >>

(* fetchStatistics, lines 169-176 *)
StatsSettled(r, data, threw) ==
    /\ IF ~threw /\ data.success
       THEN statistics' = Some(data.data)
       ELSE UNCHANGED statistics
    /\ toasts' = << >>
    /\ issued' = << >>
    /\ UNCHANGED << submissions, total, totalPages, loading, deleting, updating >>

(* mutant: the refresh is issued after the if, on failure too *)
MutationSettledAlwaysRefreshes(r, data, threw, done, fallback) ==
    /\ IF ~threw /\ data.success
       THEN toasts' = << Toast("Success", done, "default") >>
       ELSE toasts' = << Toast("Error",
                               IF threw THEN fallback
                               ELSE OrElse(data.error, fallback),
                               "destructive") >>
    /\ loading' = TRUE
    /\ issued' = Refresh(r.q)
    /\ UNCHANGED << submissions, total, totalPages, statistics >>

(* handleStatusChange / handleDelete after the await: lines 202-227, 245-270 *)
MutationSettled(r, data, threw, done, fallback) ==
    /\ IF ~threw /\ data.success
       THEN /\ toasts' = << Toast("Success", done, "default") >>
            /\ loading' = TRUE
            /\ issued' = Refresh(r.q)
       ELSE /\ toasts' = << Toast("Error",
                                  IF threw THEN fallback
                                  ELSE OrElse(data.error, fallback),
                                  "destructive") >>
            /\ issued' = << >>
            /\ UNCHANGED loading
    /\ UNCHANGED << submissions, total, totalPages, statistics >>

(* mutant: updating is reset in the success branch instead of in finally *)
StatusSettledResetsOnSuccess(r, data, threw) ==
    /\ MutationSettled(r, data, threw, "Status updated successfully",
                       "Failed to update status")
    /\ updating' = IF ~threw /\ data.success THEN FALSE ELSE updating
    /\ UNCHANGED deleting

StatusSettled(r, data, threw) ==
    /\ MutationSettled(r, data, threw, "Status updated successfully",
                       "Failed to update status")
    /\ updating' = FALSE
    /\ UNCHANGED deleting

DeleteSettled(r, data, threw) ==
    /\ MutationSettled(r, data, threw, "Submission deleted successfully",
                       "Failed to delete submission")
    /\ deleting' = FALSE
    /\ UNCHANGED updating

Settled(r, data, threw) ==
    CASE r.kind = "list"   -> ListSettled(r, data, threw)
      [] r.kind = "stats"  -> StatsSettled(r, data, threw)
      [] r.kind = "status" -> StatusSettled(r, data, threw)
      [] r.kind = "delete" -> DeleteSettled(r, data, threw)

Resume(i, data, threw, op) ==
    /\ Settled(net[i], data, threw)
    /\ net' = Remove(net, i) \o issued'
    /\ lastOp' = << op, net[i].kind >>
    /\ UNCHANGED << search, filterStatus, filterBannerType, currentPage,
                    mounted, store, nQuery, nMut, details, outside >>

(* the store's answer to request i arrives *)
Deliver(i) ==
    /\ net[i].stage = "answered"
    /\ Resume(i, net[i].resp[1], FALSE, "Deliver")
    /\ UNCHANGED nFail

(* the store refuses request i (a non-success response) and that response *)
(* arrives; the store is left as it is                                     *)
Refuse(i, error) ==
    /\ net[i].stage = "sent"
    /\ Unservable(i) \/ nFail < MaxFailures
    /\ nFail' = IF Unservable(i) THEN nFail ELSE nFail + 1
    /\ Resume(i, Failure(error), FALSE, "Refuse")

(* fetch rejects, or the body cannot be read: the catch branch *)
NetworkError(i) ==
    /\ nFail < MaxFailures
    /\ nFail' = nFail + 1
    /\ Resume(i, Failure(""), TRUE, "NetworkError")

-----

Next ==
    \/ Mount
    \/ OnSearchChange
    \/ OnStatusFilterChange
    \/ OnBannerTypeFilterChange
    \/ OnPrevPage
    \/ OnNextPage
    \/ OnRowStatusChange
    \/ OnRowDelete
    \/ OnRowView
    \/ CloseDetails
    \/ \E i \in DOMAIN net : StoreAnswers(i)
    \/ \E i \in DOMAIN net : \E error \in ServerErrors : Refuse(i, error)
    \/ \E i \in DOMAIN net : Deliver(i)
    \/ \E i \in DOMAIN net : NetworkError(i)

Spec == Init /\ [][Next]_vars

(* a step the claim's hypothesis promises: React runs the mount effect    *)
(* after the first render, the store answers a request in flight (it can  *)
(* only refuse one it cannot serve), an answer is delivered               *)
Progress ==
    \/ Mount
    \/ \E i \in DOMAIN net : StoreAnswers(i)
    \/ \E i \in DOMAIN net : Deliver(i)
    \/ \E i \in DOMAIN net : \E error \in ServerErrors :
           Unservable(i) /\ Refuse(i, error)

(* no request stays outstanding for ever *)
Fairness == WF_vars(Progress)

(* the operations that raise a flag, and what resolves their requests:    *)
(* the search box stands for the query changes, which all run the same    *)
(* effect (lines 113-117)                                                 *)
NextLive ==
    \/ Mount
    \/ OnSearchChange
    \/ OnRowStatusChange
    \/ OnRowDelete
    \/ \E i \in DOMAIN net : StoreAnswers(i)
    \/ \E i \in DOMAIN net : \E error \in ServerErrors : Refuse(i, error)
    \/ \E i \in DOMAIN net : Deliver(i)
    \/ \E i \in DOMAIN net : NetworkError(i)

SpecLive == Init /\ [][NextLive]_vars /\ Fairness

----------------------------------------------------------------------------
(* The pagination summary, lines 495-498: "Showing a to b of total" *)

MaxTotal == 35

OffsetStart(page) == (page - 1) * PageLimit + 1

(* mutant: the end of the range is not capped by the total *)
OffsetEndOfFullPage(page, n) == page * PageLimit

OffsetEnd(page, n) == Min(page * PageLimit, n)

StoreOfSize(n) == [ i \in 1..n |-> InitialSubmission(i) ]

(* the view shows, unfiltered, a page of a store of 1..MaxTotal submissions *)
InitSummary ==
    /\ \E n \in 1..MaxTotal : store = StoreOfSize(n)
    /\ search = ""
    /\ filterStatus = ""
    /\ filterBannerType = ""
    /\ currentPage \in 1..Pages(Len(store), PageLimit)
    /\ submissions = ListResult(store, BuildParams(Query)).submissions
    /\ total = ListResult(store, BuildParams(Query)).total
    /\ totalPages = ListResult(store, BuildParams(Query)).pages
    /\ statistics = Some(StatisticsOf(store))
    /\ loading = FALSE
    /\ deleting = FALSE
    /\ updating = FALSE
    /\ mounted = TRUE
    /\ net = << >>
    /\ toasts = << >>
    /\ issued = << >>
    /\ lastOp = << "Deliver", "stats" >>
    /\ nQuery = 0
    /\ nMut = 0
    /\ nFail = 0
    /\ showDetailsDialog = FALSE
    /\ selectedSubmission = Null
    /\ nView = 0
    /\ summary = Null
    /\ InstallInit
    /\ LeadInit

(* the render of the summary paragraph, inside totalPages > 1 (line 493) *)
RenderSummary ==
    /\ PaginationShown
    /\ summary' = Some(<< OffsetStart(currentPage),
                          OffsetEnd(currentPage, total) >>)
    /\ UNCHANGED << admin, install, lead >>

NextSummary == RenderSummary

SpecSummary == InitSummary /\ [][NextSummary]_vars

----------------------------------------------------------------------------
(* The install banner and the install reminder *)

(* the clock advances *)
Tick ==
    /\ now + ClockStep <= MaxClock
    /\ now' = now + ClockStep
    /\ UNCHANGED << admin, summary, lead, userAgent, localStorage, sessionStorage, reminder, banner,
                    appInfo, dismissedAt, sessionDismissed >>

(* the site is loaded: both components start from their initial state and  *)
(* what the page awaited is dropped.  The user agent is the one the        *)
(* browser sends for this load (a mobile browser asked for the desktop     *)
(* site sends a desktop one); a new session starts with an empty           *)
(* sessionStorage.                                                         *)
LoadPage(ua, newSession) ==
    /\ userAgent' = ua
    /\ reminder' = ReminderInit
    /\ banner' = BannerInit
    /\ appInfo' = 0
    /\ IF newSession
       THEN /\ sessionStorage' = [ key \in DOMAIN sessionStorage |-> Null ]
            /\ sessionDismissed' = FALSE
       ELSE UNCHANGED << sessionStorage, sessionDismissed >>
    /\ UNCHANGED << admin, summary, lead, now, localStorage, dismissedAt >>

(* mutant: a dismissal is honoured for good *)
ReminderEffectDismissedForGood(readable) ==
    IF IsMobile(userAgent) \/ ~readable
    THEN reminder
    ELSE IF localStorage[REMINDER_STORAGE_KEY] # Null
    THEN [ reminder EXCEPT !.dismissed = TRUE ]
    ELSE IF StoredWithin(INSTALL_ATTEMPT_KEY, AttemptHours)
    THEN [ reminder EXCEPT !.visible = TRUE ]
    ELSE reminder

(* the mount effect of the reminder, lines 18-60: the state it leaves; *)
(* readable is false when localStorage.getItem throws                  *)
ReminderEffect(readable) ==
    IF IsMobile(userAgent) \/ ~readable
    THEN reminder
    ELSE IF StoredWithin(REMINDER_STORAGE_KEY, DismissHours)
    THEN [ reminder EXCEPT !.dismissed = TRUE ]
    ELSE IF StoredWithin(INSTALL_ATTEMPT_KEY, AttemptHours)
    THEN [ reminder EXCEPT !.visible = TRUE ]
    ELSE reminder

ReminderMount(readable) ==
    /\ ~reminder.mounted
    /\ reminder' = [ ReminderEffect(readable) EXCEPT !.mounted = TRUE ]
    /\ UNCHANGED << admin, summary, lead, now, userAgent, localStorage, sessionStorage, banner,
                    appInfo, dismissedAt, sessionDismissed >>

(* localStorage.setItem(key, JSON.stringify(item)) inside try/catch: *)
(* writable is false when setItem throws                             *)
SetItem(storage, key, item, writable) ==
    IF writable THEN [ storage EXCEPT ![key] = Some(item) ] ELSE storage

(* handleDismiss of the reminder, lines 62-71 *)
HandleDismiss(writable) ==
    /\ ReminderShown
    /\ localStorage' = SetItem(localStorage, REMINDER_STORAGE_KEY,
                               [ timestamp |-> ToISOString(now) ], writable)
    /\ reminder' = [ reminder EXCEPT !.visible = FALSE, !.dismissed = TRUE ]
    /\ dismissedAt' = Some(now)
    /\ UNCHANGED << admin, summary, lead, now, userAgent, sessionStorage, banner, appInfo,
                    sessionDismissed >>

(* mutant: the banner is shown on every mount *)
BannerEffectAlwaysVisible(readable) == TRUE

(* the mount effect of the banner, lines 25-32: the value of visible it *)
(* leaves; readable is false when sessionStorage.getItem throws         *)
BannerEffect(readable) ==
    IF readable
    THEN IF sessionStorage[SESSION_KEY] = Some("1") THEN banner.visible
                                                    ELSE TRUE
    ELSE TRUE

BannerMount(readable) ==
    /\ ~banner.mounted
    /\ banner' = [ banner EXCEPT !.mounted = TRUE,
                                 !.visible = BannerEffect(readable) ]
    /\ UNCHANGED << admin, summary, lead, now, userAgent, localStorage, sessionStorage, reminder,
                    appInfo, dismissedAt, sessionDismissed >>

(* dismiss of the banner, lines 151-156; its button is disabled while *)
(* installing (line 187)                                              *)
Dismiss(writable) ==
    /\ BannerShown
    /\ ~banner.installing
    /\ sessionStorage' = SetItem(sessionStorage, SESSION_KEY, "1", writable)
    /\ banner' = [ banner EXCEPT !.visible = FALSE ]
    /\ sessionDismissed' = TRUE
    /\ UNCHANGED << admin, summary, lead, now, userAgent, localStorage, reminder, appInfo,
                    dismissedAt >>

(* mutant: downloadApk checks the availability on every device *)
DownloadApkOnAnyDevice ==
    /\ BannerShown
    /\ ~banner.installing
    /\ appInfo < MaxInfoFetches
    /\ appInfo' = appInfo + 1
    /\ UNCHANGED << admin, summary, lead, now, userAgent, localStorage,
                    sessionStorage, reminder, banner, dismissedAt,
                    sessionDismissed >>

(* downloadApk up to its fetch, lines 60-76; on another device than  *)
(* Android it shows an alert and returns; its button is disabled while *)
(* installing (line 197)                                               *)
DownloadApk ==
    /\ BannerShown
    /\ ~banner.installing
    /\ IF ~IsAndroid(userAgent)
       THEN UNCHANGED appInfo
       ELSE /\ appInfo < MaxInfoFetches
            /\ appInfo' = appInfo + 1
    /\ UNCHANGED << admin, summary, lead, now, userAgent, localStorage,
                    sessionStorage, reminder, banner, dismissedAt,
                    sessionDismissed >>

(* the answer of /api/app/info arrives, lines 77-114; when the file is *)
(* not available, or the fetch failed, only a notification is raised    *)
AppInfoArrives(outcome, writable) ==
    /\ appInfo > 0
    /\ appInfo' = appInfo - 1
    /\ CASE outcome = "available" ->
               /\ banner' = [ banner EXCEPT !.showInstallHelp = TRUE ]
               /\ localStorage' =
                      SetItem(localStorage, INSTALL_ATTEMPT_KEY,
                              [ timestamp |-> ToISOString(now),
                                userAgent |-> userAgent ], writable)
         [] OTHER -> UNCHANGED << banner, localStorage >>
    /\ UNCHANGED << admin, summary, lead, now, userAgent, sessionStorage, reminder, dismissedAt,
                    sessionDismissed >>

(* the "Got it" button of the install help, lines 267-272 *)
HideInstallHelp ==
    /\ BannerShown
    /\ banner.showInstallHelp
    /\ banner' = [ banner EXCEPT !.showInstallHelp = FALSE ]
    /\ UNCHANGED << admin, summary, lead, now, userAgent, localStorage, sessionStorage, reminder,
                    appInfo, dismissedAt, sessionDismissed >>

(* the browser offers the install prompt: onBIP, lines 36-39 *)
OnBIP ==
    /\ banner.mounted
    /\ banner' = [ banner EXCEPT !.bipEvt = Some("beforeinstallprompt") ]
    /\ UNCHANGED << admin, summary, lead, now, userAgent, localStorage,
                    sessionStorage, reminder, appInfo, dismissedAt,
                    sessionDismissed >>

(* the app was installed: onInstalled, lines 40-51 (it also raises a *)
(* notification)                                                     *)
OnInstalled(writable) ==
    /\ banner.mounted
    /\ localStorage' = SetItem(localStorage, PWA_INSTALLED_KEY, "true", writable)
    /\ banner' = [ banner EXCEPT !.bipEvt = Null, !.visible = FALSE,
                                 !.installing = FALSE ]
    /\ UNCHANGED << admin, summary, lead, now, userAgent, sessionStorage, reminder,
                    appInfo, dismissedAt, sessionDismissed >>

(* installPWA up to its first await, lines 125-136; its button is rendered *)
(* when a prompt event is held and disabled while installing (206-209)     *)
InstallPWA ==
    /\ BannerShown
    /\ banner.bipEvt # Null
    /\ ~banner.installing
    /\ ~banner.prompting
    /\ banner' = [ banner EXCEPT !.installing = TRUE, !.prompting = TRUE ]
    /\ UNCHANGED << admin, summary, lead, now, userAgent, localStorage,
                    sessionStorage, reminder, appInfo, dismissedAt,
                    sessionDismissed >>

(* installPWA after its awaits, lines 137-148: the user's choice, none *)
(* when userChoice rejects, or prompt() threw; the event is dropped in *)
(* every case                                                          *)
PromptSettled(outcome) ==
    /\ banner.prompting
    /\ banner' = [ banner EXCEPT
                      !.installing = IF outcome = "accepted" THEN @ ELSE FALSE,
                      !.bipEvt = Null,
                      !.prompting = FALSE ]
    /\ UNCHANGED << admin, summary, lead, now, userAgent, localStorage,
                    sessionStorage, reminder, appInfo, dismissedAt,
                    sessionDismissed >>

(* the banner: page loads in the same or in a new session, and its handlers *)
NextBanner ==
    \/ \E ua \in UserAgents : \E newSession \in BOOLEAN :
           LoadPage(ua, newSession)
    \/ \E readable \in BOOLEAN : BannerMount(readable)
    \/ \E writable \in BOOLEAN : Dismiss(writable)
    \/ DownloadApk
    \/ \E outcome \in {"available", "unavailable", "error"} :
           \E writable \in BOOLEAN : AppInfoArrives(outcome, writable)
    \/ HideInstallHelp
    \/ OnBIP
    \/ \E writable \in BOOLEAN : OnInstalled(writable)
    \/ InstallPWA
    \/ \E outcome \in {"accepted", "dismissed", "none", "threw"} :
           PromptSettled(outcome)

SpecBanner == Init /\ [][NextBanner]_vars

(* the promises installPWA awaits (lines 136-137) settle; nothing promises *)
(* an appinstalled event or another page load                              *)
SpecBannerLive ==
    /\ SpecBanner
    /\ WF_vars(\E outcome \in {"accepted", "dismissed", "none", "threw"} :
                   PromptSettled(outcome))

(* the reminder over time, with the download of the banner that stores the *)
(* install attempt the reminder reads                                      *)
NextReminder ==
    \/ Tick
    \/ \E ua \in UserAgents : LoadPage(ua, FALSE)
    \/ \E readable \in BOOLEAN : ReminderMount(readable)
    \/ \E writable \in BOOLEAN : HandleDismiss(writable)
    \/ \E readable \in BOOLEAN : BannerMount(readable)
    \/ DownloadApk
    \/ \E outcome \in {"available", "unavailable", "error"} :
           \E writable \in BOOLEAN : AppInfoArrives(outcome, writable)

SpecReminder == Init /\ [][NextReminder]_vars

----------------------------------------------------------------------------
(* The lead-capture form AdvertisementBanners                               *)
(* (src/client/components/MobileInstallationReminder.tsx, lines 117-530)    *)

(* handleBannerClick, lines 223-237; the cards lie under the open dialog *)
HandleBannerClick(type) ==
    /\ ~leadForm.showForm
    /\ leadForm' = [ leadForm EXCEPT !.selectedBanner = Some(type),
                                     !.formData = EmptyForm(type),
                                     !.showForm = TRUE ]
    /\ leadToasts' = << >>
    /\ leadOp' = "handleBannerClick"
    /\ UNCHANGED << admin, summary, install, leadNet >>

(* handleInputChange, lines 239-244 *)
HandleInputChange(field, value) ==
    /\ leadForm.showForm
    /\ leadForm' = [ leadForm EXCEPT !.formData[field] = value ]
    /\ leadToasts' = << >>
    /\ leadOp' = "handleInputChange"
    /\ UNCHANGED << admin, summary, install, leadNet >>

(* Dialog onOpenChange, line 341, and the two buttons of lines 347 and 510 *)
CloseForm ==
    /\ leadForm.showForm
    /\ leadForm' = [ leadForm EXCEPT !.showForm = FALSE ]
    /\ leadToasts' = << >>
    /\ leadOp' = "setShowForm"
    /\ UNCHANGED << admin, summary, install, leadNet >>

(* the test of lines 249-256, with description left out *)
MissingRequiredButDescription(formData) ==
    \/ formData.fullName = ""
    \/ formData.email = ""
    \/ formData.phone = ""
    \/ formData.projectName = ""
    \/ formData.location = ""

(* the test of lines 249-256: "" is the one falsy string *)
MissingRequired(formData) ==
    \/ formData.fullName = ""
    \/ formData.email = ""
    \/ formData.phone = ""
    \/ formData.projectName = ""
    \/ formData.location = ""
    \/ formData.description = ""

(* handleSubmit up to its first await, lines 246-273; the submit button is *)
(* disabled while loading (line 517)                                       *)
HandleSubmit ==
    /\ leadForm.showForm
    /\ ~leadForm.loading
    /\ IF MissingRequired(leadForm.formData)
       THEN /\ leadToasts' = << Toast("Error",
                                      "Please fill in all required fields",
                                      "destructive") >>
            /\ UNCHANGED << leadForm, leadNet >>
       ELSE /\ leadForm' = [ leadForm EXCEPT !.loading = TRUE ]
            /\ leadNet' = Some(leadForm.formData)
            /\ leadToasts' = << >>
    /\ leadOp' = "handleSubmit"
    /\ UNCHANGED << admin, summary, install >>

(* handleSubmit after its awaits, lines 275-300 *)
LeadSettled(outcome, error) ==
    /\ leadNet # Null
    /\ leadForm' =
           IF outcome = "success"
           THEN [ leadForm EXCEPT !.showForm = FALSE,
                                  !.selectedBanner = Null,
                                  !.loading = FALSE ]
           ELSE [ leadForm EXCEPT !.loading = FALSE ]
    /\ leadToasts' =
           CASE outcome = "success" ->
                  << Toast("Success",
                           "Your submission has been sent to our sales team",
                           "") >>
             [] outcome = "refused" ->
                  << Toast("Error", OrElse(error, "Failed to submit form"),
                           "destructive") >>
             [] outcome = "threw" ->
                  << Toast("Error",
                           "Failed to submit your request. Please try again.",
                           "destructive") >>
    /\ leadNet' = Null
    /\ leadOp' = "handleSubmit settled"
    /\ UNCHANGED << admin, summary, install >>

NextLead ==
    \/ \E type \in BANNERS : HandleBannerClick(type)
    \/ \E field \in InputFields :
           \E value \in { "", SampleText[field] } :
               HandleInputChange(field, value)
    \/ CloseForm
    \/ HandleSubmit
    \/ \E outcome \in { "success", "refused", "threw" } :
           \E error \in ServerErrors : LeadSettled(outcome, error)

SpecLead == Init /\ [][NextLead]_vars

----------------------------------------------------------------------------
(* Vocabulary of the properties *)

Displayed == [ submissions |-> submissions, total |-> total, pages |-> totalPages ]

InFlight(kind) == { i \in DOMAIN net : net[i].kind = kind }

ParamKeys(params) == { params[k][1] : k \in DOMAIN params }

(* params is exactly: page and limit, and each non-empty filter of q *)
Carries(params, q) ==
    /\ Len(params) = Cardinality(ParamKeys(params))
    /\ ParamKeys(params) =
           {"page", "limit"}
           \cup (IF q.search # "" THEN {"search"} ELSE {})
           \cup (IF q.filterStatus # "" THEN {"status"} ELSE {})
           \cup (IF q.filterBannerType # "" THEN {"bannerType"} ELSE {})
    /\ GetParam(params, "page") = ToString(q.currentPage)
    /\ GetParam(params, "limit") = "10"
    /\ GetParam(params, "search") = q.search
    /\ GetParam(params, "status") = q.filterStatus
    /\ GetParam(params, "bannerType") = q.filterBannerType

(* this step is a run of handler op (every handler run but a declined *)
(* delete changes the number of requests in flight)                   *)
Ran(op) == lastOp'[1] = op /\ Len(net') # Len(net)

(* this step is the continuation of a request of this kind *)
Resumed(op, kind) == lastOp' = << op, kind >> /\ Len(net') # Len(net)

(* this step is the failure branch of the continuation of such a request *)
FailedNow(kind) == Resumed("Refuse", kind) \/ Resumed("NetworkError", kind)

(* this step delivers the successful answer to list request i *)
ListDelivered(i) ==
    /\ net[i].kind = "list"
    /\ net[i].stage = "answered"
    /\ Resumed("Deliver", "list")
    /\ net' = Remove(net, i)

----------------------------------------------------------------------------
(* C1: every change of the search text, the status filter or the bannerType *)
(* filter leaves the current page equal to 1.                               *)
C1_FilterChangeResetsPage ==
    [][ (\/ search' # search
         \/ filterStatus' # filterStatus
         \/ filterBannerType' # filterBannerType) => currentPage' = 1 ]_vars

(* C2: the current page is within [1, totalPages] in every state reached by *)
(* page changes, filter and search changes, deletes and refreshes (stated   *)
(* for total > 0, where the store reports at least one page).               *)
C2_PageWithinRange ==
    (mounted /\ total > 0) => (1 <= currentPage /\ currentPage <= totalPages)

(* C3: list fetches in flight are never cancelled, and the answer to a list *)
(* fetch is applied when it arrives also when its query has been superseded *)
(* by the current QueryState: the last answer to arrive is the one shown.   *)
C3_LastResolvedWins ==
    [][ /\ \/ /\ Len(net') >= Len(net)
              /\ \A k \in DOMAIN net : net'[k].params = net[k].params
                                       /\ net'[k].kind = net[k].kind
           \/ \E i \in DOMAIN net :
                  /\ lastOp'[1] \in {"Deliver", "Refuse", "NetworkError"}
                  /\ Len(net') >= Len(net) - 1
                  /\ SubSeq(net', 1, Len(net) - 1) = Remove(net, i)
        /\ \A i \in DOMAIN net :
               (ListDelivered(i) /\ net[i].params # BuildParams(Query))
                   => Displayed' = net[i].resp[1].data ]_vars

(* C3 witness: nothing in flight, nothing failed, the store never changed, *)
(* and the list shown is not the store's answer to the current QueryState. *)
C3_StaleListShown ==
    /\ mounted /\ net = << >> /\ ~loading
    /\ nFail = 0 /\ nMut = 0
    /\ Displayed # ListResult(store, BuildParams(Query))

(* C4: at most one status-change request and at most one delete request is *)
(* in flight, and updating / deleting is true exactly while one is.        *)
C4_OneInFlightPerClass ==
    /\ Cardinality(InFlight("status")) <= 1
    /\ Cardinality(InFlight("delete")) <= 1
    /\ updating = (InFlight("status") # {})
    /\ deleting = (InFlight("delete") # {})

(* C4 witness: the table is shown with its status selects disabled while a *)
(* status change is in flight, after an earlier mutation has completed.    *)
C4_StatusChangeOutstanding ==
    /\ TableShown /\ updating /\ ~deleting
    /\ nMut = 2
    /\ Cardinality(InFlight("status")) = 1

(* C5: neither issuing a status change nor its continuation changes the    *)
(* submissions shown; a successful continuation issues a list fetch and a  *)
(* statistics fetch, and the submissions shown change only when the answer *)
(* to a list fetch is delivered.                                           *)
C5_NoLocalStatusChange ==
    [][ /\ (Ran("HandleStatusChange") \/ Resumed("Deliver", "status")
            \/ FailedNow("status")) => submissions' = submissions
        /\ Resumed("Deliver", "status")
               => /\ Len(issued') = 2
                  /\ issued'[1].kind = "list" /\ issued'[2].kind = "stats"
                  /\ net' = SubSeq(net', 1, Len(net) - 1) \o issued'
        /\ submissions' # submissions => Resumed("Deliver", "list") ]_vars

(* C5 witness: the store has confirmed a status change, the refresh is in *)
(* flight, and the row still shows the status it had.                     *)
C5_ConfirmedNotYetShown ==
    /\ lastOp = << "Deliver", "status" >>
    /\ Len(issued) = 2
    /\ \E i \in DOMAIN submissions : \E j \in DOMAIN store :
           /\ store[j].id = submissions[i].id
           /\ store[j].status # submissions[i].status

(* C6: the failure branch of a status change or a delete leaves the       *)
(* submissions, total, totalPages and statistics shown as they were, sends *)
(* no request, and raises exactly one error notification.                  *)
C6_FailedMutationChangesNothing ==
    [][ (FailedNow("status") \/ FailedNow("delete"))
            => /\ UNCHANGED << submissions, total, totalPages, statistics >>
               /\ issued' = << >>
               /\ Len(net') = Len(net) - 1
               /\ Len(toasts') = 1
               /\ toasts'[1].title = "Error"
               /\ toasts'[1].variant = "destructive" ]_vars

(* C6 witness: a delete was refused with a message of the store *)
C6_DeleteRefused ==
    /\ lastOp = << "Refuse", "delete" >>
    /\ toasts = << Toast("Error", "Unauthorized", "destructive") >>
    /\ ~deleting
    /\ Len(submissions) > 0

(* C7: a delivered successful list answer replaces submissions, total and  *)
(* totalPages by the values of that answer; a failed list fetch leaves all *)
(* three as they were and raises one error notification.                   *)
C7_ListRefreshAllOrNothing ==
    [][ /\ \A i \in DOMAIN net :
               ListDelivered(i)
                   => /\ submissions' = net[i].resp[1].data.submissions
                      /\ total' = net[i].resp[1].data.total
                      /\ totalPages' = net[i].resp[1].data.pages
                      /\ toasts' = << >>
        /\ FailedNow("list")
               => /\ UNCHANGED << submissions, total, totalPages >>
                  /\ Len(toasts') = 1
                  /\ toasts'[1].title = "Error"
                  /\ toasts'[1].variant = "destructive" ]_vars

(* C7 witness: a list fetch failed while an earlier page is still shown *)
C7_ListFailedPageKept ==
    /\ lastOp = << "NetworkError", "list" >>
    /\ toasts = << Toast("Error", "Failed to fetch submissions", "destructive") >>
    /\ Len(submissions) > 0
    /\ total = NumSubmissions

(* C8: a failed statistics fetch raises no notification, leaves the        *)
(* statistics and everything else shown as they were and the other         *)
(* requests in flight; and an answered list fetch can always be delivered. *)
C8_StatisticsFailureIsSilent ==
    [][ /\ FailedNow("stats")
               => /\ toasts' = << >>
                  /\ UNCHANGED ui
                  /\ \E i \in DOMAIN net : net[i].kind = "stats"
                                           /\ net' = Remove(net, i)
        /\ \A i \in DOMAIN net :
               (net[i].kind = "list" /\ net[i].stage = "answered")
                   => ENABLED Deliver(i) ]_vars

(* C8 witness: the statistics fetch failed without a notification, no   *)
(* statistics are held, and the list issued with it is shown.           *)
C8_ListShownWithoutStatistics ==
    /\ lastOp = << "NetworkError", "stats" >>
    /\ toasts = << >>
    /\ statistics = Null
    /\ ~loading /\ Len(submissions) > 0
    /\ nQuery = 0 /\ net = << >>

(* C9: every list query sent carries page = the current page, limit = 10, *)
(* and exactly the non-empty ones of search, status and bannerType.       *)
C9_ListQueryCarriesCurrentState ==
    \A k \in DOMAIN issued :
        issued[k].kind = "list" => Carries(issued[k].params, Query)

(* C10: every change of QueryState sends a list fetch with the parameters *)
(* of the new QueryState, and a statistics fetch.                         *)
C10_QueryChangeRefetches ==
    [][ Query' # Query
            => /\ Len(net') = Len(net) + 2
               /\ SubSeq(net', 1, Len(net)) = net
               /\ \E k \in DOMAIN net' :
                      /\ k > Len(net)
                      /\ net'[k].kind = "list"
                      /\ net'[k].stage = "sent"
                      /\ Carries(net'[k].params, Query')
               /\ \E k \in DOMAIN net' :
                      /\ k > Len(net)
                      /\ net'[k].kind = "stats"
                      /\ net'[k].stage = "sent" ]_vars

(* C10 witness: the status filter went to "contacted" from another value *)
(* and the list fetch just sent asks for "contacted" only                *)
C10_FilterToContacted ==
    /\ lastOp[1] = "OnStatusFilterChange"
    /\ nQuery = 2
    /\ Query = [ search |-> "", filterStatus |-> "contacted",
                 filterBannerType |-> "", currentPage |-> 1 ]
    /\ Len(issued) = 2
    /\ issued[1].params = << << "page", "1" >>, << "limit", "10" >>,
                             << "status", "contacted" >> >>
    /\ net[Len(net) - 1] = issued[1]

(* C11: a delete request is sent only by a confirmed run of handleDelete;    *)
(* a run whose confirmation is declined sends nothing, does not set the      *)
(* deleting flag, raises no notification and leaves every piece of state of  *)
(* the component, the requests in flight and the store as they were.         *)
C11_DeleteOnlyAfterConfirm ==
    [][ /\ (lastOp' # lastOp /\ lastOp'[1] = "HandleDeleteDeclined")
               => /\ UNCHANGED << ui, mounted, net, store, nMut, details,
                               outside >>
                  /\ issued' = << >>
                  /\ toasts' = << >>
        /\ Cardinality(InFlight("delete"))' > Cardinality(InFlight("delete"))
               => /\ lastOp' = << "HandleDelete", "" >>
                  /\ ~deleting /\ deleting'
                  /\ Len(issued') = 1
                  /\ issued'[1].kind = "delete"
                  /\ net' = net \o issued' ]_vars

(* C11 witness: the confirmation was just declined with the table shown, *)
(* no delete in flight and the flag down                                 *)
C11_DeleteDeclined ==
    /\ lastOp = << "HandleDeleteDeclined", "" >>
    /\ TableShown
    /\ ~deleting
    /\ InFlight("delete") = {}
    /\ issued = << >>

(* the delete request whose continuation runs in this step *)
DeleteResumed == net[CHOOSE i \in DOMAIN net : net[i].kind = "delete"]

(* C12: when a delete that is the only mutation of the store has succeeded, *)
(* the list fetch of the refresh that follows it is answered without the    *)
(* deleted id and with a total exactly 1 below the total the same query had *)
(* before the delete.                                                       *)
C12_DeletedGoneAndTotalOneLess ==
    [][ (Resumed("Deliver", "delete") /\ nMut = 1)
            => LET p      == issued'[1].params
                   before == ListResult(InitialStore, p)
                   after  == ListResult(store', p)
               IN  /\ issued'[1].kind = "list"
                   /\ \A k \in DOMAIN after.submissions :
                          after.submissions[k].id # DeleteResumed.id
                   /\ after.total = before.total - 1 ]_vars

(* the status-change request whose continuation runs in this step *)
StatusResumed == net[CHOOSE i \in DOMAIN net : net[i].kind = "status"]

(* the rows of a list answer that hold submission id *)
RowsOf(result, id) ==
    { k \in DOMAIN result.submissions : result.submissions[k].id = id }

(* this step is the successful continuation of a change of a submission's *)
(* status to "viewed" that is the only mutation of the store              *)
ViewedConfirmed ==
    /\ Resumed("Deliver", "status")
    /\ nMut = 1
    /\ StatusResumed.status = "viewed"

(* C13 as stated: after a successful change of a submission's status to   *)
(* "viewed", with no other mutation, the list fetch of the refresh that   *)
(* follows shows the submission with status "viewed", and the statistics  *)
(* then report a "viewed" count exactly 1 above the one before the change. *)
C13_RefreshShowsViewed ==
    [][ ViewedConfirmed
            => LET after == ListResult(store', issued'[1].params)
               IN  /\ \E k \in RowsOf(after, StatusResumed.id) :
                          after.submissions[k].status = "viewed"
                   /\ StatisticsOf(store').viewed
                          = StatisticsOf(InitialStore).viewed + 1 ]_vars

(* C13 amended: after such a change the refresh that follows is a list    *)
(* fetch and a statistics fetch; wherever the list answer holds the       *)
(* submission its status is "viewed" (the answer need not hold it: the    *)
(* refreshed query may filter it out), and the statistics report a        *)
(* "viewed" count exactly 1 above the count before the change.            *)
C13_RefreshShowsViewedIfListed ==
    [][ ViewedConfirmed
            => LET p     == issued'[1].params
                   after == ListResult(store', p)
               IN  /\ Len(issued') = 2
                   /\ issued'[1].kind = "list" /\ issued'[2].kind = "stats"
                   /\ \A k \in RowsOf(after, StatusResumed.id) :
                          after.submissions[k].status = "viewed"
                   /\ StatisticsOf(store').viewed
                          = StatisticsOf(InitialStore).viewed + 1 ]_vars

(* C13 witness: under the status filter "new" a row was changed to      *)
(* "viewed"; the store counts one more "viewed" than the statistics     *)
(* held, which were fetched before the change                           *)
C13_ViewedUnderNewFilter ==
    /\ lastOp = << "Deliver", "status" >>
    /\ nMut = 1
    /\ filterStatus = "new"
    /\ Len(issued) = 2
    /\ statistics = Some(StatisticsOf(InitialStore))
    /\ CountStatus(store, "viewed") = statistics[1].viewed + 1

(* the bounds of the model leave room for one more mutation *)
RoomForMutation == nQuery + nMut + nView < MaxOps /\ Len(net) + 1 <= MaxInFlight

(* C14: the two locks are independent: with the table shown, a delete can *)
(* be started on every row whenever deleting is false, whatever updating  *)
(* is, and a status change whenever updating is false, whatever deleting  *)
(* is.                                                                    *)
C14_LocksIndependent ==
    (TableShown /\ RoomForMutation)
        => \A i \in DOMAIN submissions :
               /\ ~deleting => ENABLED HandleDelete(i, TRUE)
               /\ ~updating => \A newStatus \in Statuses :
                                   ENABLED HandleStatusChange(i, newStatus)

(* C14 witness: a status change and a delete of the same submission are *)
(* outstanding at the same time, both flags up                          *)
C14_BothOutstandingForOneId ==
    /\ updating /\ deleting
    /\ \E i \in InFlight("status") : \E j \in InFlight("delete") :
           /\ net[i].id = net[j].id
           /\ net[i].stage = "sent" /\ net[j].stage = "sent"

(* a value outside the three statuses: at run time the row Select hands *)
(* handleStatusChange a string, cast unchecked to the union (line 447)  *)
UnknownStatuses == {"archived"}

C15_ViewDetailsIsLocal ==
    [][ nView' # nView
            => /\ UNCHANGED << ui, mounted, net, store >>
               /\ Query' = Query
               /\ issued' = << >>
               /\ toasts' = << >>
               /\ showDetailsDialog'
               /\ \E i \in DOMAIN submissions :
                      selectedSubmission' = Some(submissions[i]) ]_vars

(* C15 witness: the details of the last row were opened while a status *)
(* change was outstanding                                              *)
C15_DetailsOpenedDuringUpdate ==
    /\ lastOp = << "HandleViewDetails", "" >>
    /\ showDetailsDialog
    /\ updating
    /\ InFlight("status") # {}
    /\ Len(submissions) > 1
    /\ selectedSubmission = Some(submissions[Len(submissions)])

(* C17: the range shown is (page-1)*10+1 to min(page*10, total), and for  *)
(* every total >= 1 and every page from 1 to ceil(total/10) it satisfies  *)
(* 1 <= start <= end <= total; for total = 23, page 2 gives (11, 20) and  *)
(* page 3 gives (21, 23).                                                 *)
C17_SummaryRangeWithinTotal ==
    /\ (total >= 1 /\ 1 <= currentPage
           /\ currentPage <= Pages(total, PageLimit))
           => /\ OffsetStart(currentPage) = (currentPage - 1) * 10 + 1
              /\ OffsetEnd(currentPage, total)
                     = (IF currentPage * 10 <= total THEN currentPage * 10
                        ELSE total)
              /\ 1 <= OffsetStart(currentPage)
              /\ OffsetStart(currentPage) <= OffsetEnd(currentPage, total)
              /\ OffsetEnd(currentPage, total) <= total
    /\ summary # Null
           => /\ summary[1] = << OffsetStart(currentPage),
                                 OffsetEnd(currentPage, total) >>
              /\ (total = 23 /\ currentPage = 2) => summary[1] = << 11, 20 >>
              /\ (total = 23 /\ currentPage = 3) => summary[1] = << 21, 23 >>

(* C17 witness: the last page of 23 submissions is summarised as 21 to 23 *)
C17_LastPageOfTwentyThree ==
    /\ total = 23
    /\ currentPage = 3
    /\ totalPages = 3
    /\ summary = Some(<< 21, 23 >>)

(* the conditions under which the reminder is to show when it mounts *)
ReminderDue ==
    /\ ~IsMobile(userAgent)
    /\ StoredWithin(INSTALL_ATTEMPT_KEY, AttemptHours)
    /\ ~StoredWithin(REMINDER_STORAGE_KEY, DismissHours)

(* this step is the mount of the reminder *)
ReminderMounts == ~reminder.mounted /\ reminder'.mounted

(* handleDismiss of the reminder ran less than 24 hours ago *)
DismissedRecently ==
    dismissedAt # Null /\ now - dismissedAt[1] < DismissHours

SessionKeySet == sessionStorage[SESSION_KEY] = Some("1")

(* this step is the mount of the banner *)
BannerMounts == ~banner.mounted /\ banner'.mounted

AllSixGiven ==
    \A field \in { "fullName", "email", "phone", "projectName", "location",
                   "description" } : leadForm.formData[field] # ""

(* C20: a createSubmission request is sent only when fullName, email,     *)
(* phone, projectName, location and description are all non-empty; a run  *)
(* of handleSubmit with one of them empty sends no request, raises one    *)
(* error notification and leaves the form open, with its data and its     *)
(* loading flag unchanged.                                                *)
C20_SubmitOnlyWhenRequiredGiven ==
    [][ /\ (leadNet' # leadNet /\ leadNet' # Null)
               => (AllSixGiven /\ leadNet' = Some(leadForm.formData))
        /\ (leadOp' = "handleSubmit" /\ ~AllSixGiven)
               => /\ leadNet' = leadNet
                  /\ leadNet = Null
                  /\ Len(leadToasts') = 1
                  /\ leadToasts'[1].variant = "destructive"
                  /\ leadForm' = leadForm
                  /\ leadForm'.showForm ]_vars

(* C20 witness: handleSubmit just ran on the open form with everything    *)
(* given but the description, and raised its error notification           *)
C20_SubmittedWithoutDescription ==
    /\ leadOp = "handleSubmit"
    /\ leadForm.showForm
    /\ \A field \in { "fullName", "email", "phone", "projectName",
                       "location" } : leadForm.formData[field] # ""
    /\ leadForm.formData.description = ""
    /\ Len(leadToasts) = 1
    /\ leadNet = Null
    /\ ~leadForm.loading

(* C21: loading is TRUE in every state in which a list fetch is in flight, *)
(* also when several list fetches overlap.                                 *)
C21_LoadingWhileListInFlight ==
    InFlight("list") # {} => loading

(* C22: when every outstanding request eventually resolves, no flag stays *)
(* stuck: from every state on, loading, updating and deleting are each    *)
(* FALSE again at some later time.                                        *)
C22_FlagsReturnToFalse ==
    /\ []<>~loading
    /\ []<>~updating
    /\ []<>~deleting

(* C22 witness: a status change has just failed on the network and all   *)
(* three flags are FALSE with nothing left in flight                     *)
C22_FlagsClearAfterFailedUpdate ==
    /\ lastOp = << "NetworkError", "status" >>
    /\ ~loading /\ ~updating /\ ~deleting
    /\ net = << >>

(* the rows of the page on display *)
DisplayedRows == { submissions[k] : k \in DOMAIN submissions }

(* C23: whenever the details view is open, the selected submission is a   *)
(* row of the displayed page, with the status displayed there.            *)
C23_DetailsShowDisplayedRow ==
    showDetailsDialog =>
        /\ selectedSubmission # Null
        /\ selectedSubmission[1] \in DisplayedRows

(* C24: when installPWA is over the captured prompt event is cleared, and *)
(* installing is FALSE again at some later time on every path, also when  *)
(* the choice was accepted and no appinstalled event follows.             *)
C24_PromptOnceAndInstallingCleared ==
    /\ [][ (banner.prompting /\ ~banner'.prompting)
               => banner'.bipEvt = Null ]_vars
    /\ []<>~banner.installing

(* this step is the continuation of downloadApk after the availability   *)
(* check reported the APK available                                       *)
ApkReportedAvailable ==
    \E writable \in BOOLEAN : AppInfoArrives("available", writable)

====
